---------------------------- MODULE Spec2Model ----------------------------
(***************************************************************************)
(* A model of python_examples/upload_package.ipynb: the helper functions   *)
(* of cell 2 (flatten_filepath, pretty_format_xml,                         *)
(* generate_system_metadata, generate_public_access_policy,                *)
(* create_minimum_eml) and the run of the code cells that build and upload *)
(* a data package (cells 3, 4, 5, 8 and 10).                               *)
(*                                                                         *)
(* Text is a sequence of Unicode code points, bytes a sequence of 0..255.  *)
(* Identifiers are the values uuid.uuid4() draws, kept as naturals.        *)
(***************************************************************************)
EXTENDS Integers, Sequences, FiniteSets, TLC

VARIABLES
    pc,         \* position of the run
    title,      \* cell 4: title
    eml,        \* cell 5: eml, the text create_minimum_eml returned
    parsed,     \* cell 6: what xml.dom.minidom.parseString made of eml
    entropy,    \* the values uuid.uuid4() returns, in order
    generated,  \* how many of them it has returned so far
    now,        \* the clock datetime.datetime.now() reads
    listing,    \* cell 3: the order in which rglob yields the paths
    files,      \* cell 3: files
    idx,        \* cell 8: how many elements of files the loop has taken
    eml_pid,    \* cell 5: eml_pid
    meta_sm,    \* cell 5: meta_sm
    data_pids,  \* cell 8: data_pids
    data_sm,    \* cell 8: data_sm
    ore_pid,    \* cell 10: ore_pid
    ore,        \* cell 10: ore
    ore_meta,   \* cell 10: ore_meta
    calls,      \* every client.create call issued, in order, with its outcome
    remote,     \* the objects the member node holds: pid -> [payload, sysmeta]
    error,      \* the exception that ended the run, if any
    args,       \* the arguments of the generate_system_metadata call under study
    rec1,       \* what the first call with args returned (or raised)
    rec2        \* what a second call with the same args returned (or raised)

vars == <<pc, title, eml, parsed, entropy, generated, now, listing, files, idx, eml_pid,
          meta_sm, data_pids, data_sm, ore_pid, ore, ore_meta, calls, remote,
          error, args, rec1, rec2>>

(***************************************************************************)
(* Bounds of the model.                                                    *)
(***************************************************************************)
\* Longest title tried on create_minimum_eml.
MaxTitleLen == 3

\* Most files the directories tmp1 and tmp2 hold besides the ones written.
MaxExtraFiles == 1

\* Longest payload tried on generate_system_metadata.
MaxPayloadLen == 1

\* Most upload steps a caller runs one after the other.
MaxSteps == 2

\* How far the clock advances.
MaxClock == 1

None == "None"

--------------------------------------------------------------------------
(***************************************************************************)
(* Sequences.                                                              *)
(***************************************************************************)
Range(s) == {s[k] : k \in DOMAIN s}

Min(S) == CHOOSE x \in S : \A y \in S : x <= y

\* All sequences over S of length at most n.
SeqsUpTo(S, n) == UNION {[1..k -> S] : k \in 0..n}

\* The elements of a sequence of sequences, in order (by halves, so that the
\* evaluation nests only as deep as the logarithm of its length).
RECURSIVE Flatten(_)
Flatten(ss) ==
    IF ss = <<>> THEN <<>>
    ELSE IF Len(ss) = 1 THEN ss[1]
    ELSE LET h == Len(ss) \div 2
         IN  Flatten(SubSeq(ss, 1, h)) \o Flatten(SubSeq(ss, h + 1, Len(ss)))

\* The first position j >= i of s holding c, or 0.
Find(s, i, c) ==
    LET hits == {j \in i..Len(s) : s[j] = c}
    IN  IF hits = {} THEN 0 ELSE Min(hits)

\* Whether s holds the sequence w from position i on.
StartsWithAt(s, i, w) ==
    /\ i + Len(w) - 1 <= Len(s)
    /\ \A k \in 1..Len(w) : s[i + k - 1] = w[k]

\* The first position j >= i at which w starts in s, or 0.
FindSeq(s, i, w) ==
    LET hits == {j \in i..Len(s) : StartsWithAt(s, j, w)}
    IN  IF hits = {} THEN 0 ELSE Min(hits)

--------------------------------------------------------------------------
(***************************************************************************)
(* create_minimum_eml: string concatenation around the title.              *)
(***************************************************************************)
\* '<?xml version="1.0" encoding="UTF-8"?>'
EmlTop ==
    <<60, 63, 120, 109, 108, 32, 118, 101, 114, 115, 105, 111, 110, 61, 34, 49, 46, 48,
      34, 32, 101, 110, 99, 111, 100, 105, 110, 103, 61, 34, 85, 84, 70, 45, 56, 34, 63,
      62>>

\* '<eml:eml xmlns:eml="eml://ecoinformatics.org/eml-2.1.1"
\*   xmlns:stmml="http://www.xml-cml.org/schema/stmml-1.1"
\*   xmlns:xsi="http://www.w3.org/2001/XMLSchema-instance" packageId="test_pkg"
\*   system="test_system"
\*   xsi:schemaLocation="eml://ecoinformatics.org/eml-2.1.1 eml.xsd">'
\* (one line, single spaces, in the source)
EmlNamespace ==
    <<60, 101, 109, 108, 58, 101, 109, 108, 32, 120, 109, 108, 110, 115, 58, 101, 109,
      108, 61, 34, 101, 109, 108, 58, 47, 47, 101, 99, 111, 105, 110, 102, 111, 114, 109,
      97, 116, 105, 99, 115, 46, 111, 114, 103, 47, 101, 109, 108, 45, 50, 46, 49, 46, 49,
      34, 32, 120, 109, 108, 110, 115, 58, 115, 116, 109, 109, 108, 61, 34, 104, 116, 116,
      112, 58, 47, 47, 119, 119, 119, 46, 120, 109, 108, 45, 99, 109, 108, 46, 111, 114,
      103, 47, 115, 99, 104, 101, 109, 97, 47, 115, 116, 109, 109, 108, 45, 49, 46, 49,
      34, 32, 120, 109, 108, 110, 115, 58, 120, 115, 105, 61, 34, 104, 116, 116, 112, 58,
      47, 47, 119, 119, 119, 46, 119, 51, 46, 111, 114, 103, 47, 50, 48, 48, 49, 47, 88,
      77, 76, 83, 99, 104, 101, 109, 97, 45, 105, 110, 115, 116, 97, 110, 99, 101, 34, 32,
      112, 97, 99, 107, 97, 103, 101, 73, 100, 61, 34, 116, 101, 115, 116, 95, 112, 107,
      103, 34, 32, 115, 121, 115, 116, 101, 109, 61, 34, 116, 101, 115, 116, 95, 115, 121,
      115, 116, 101, 109, 34, 32, 120, 115, 105, 58, 115, 99, 104, 101, 109, 97, 76, 111,
      99, 97, 116, 105, 111, 110, 61, 34, 101, 109, 108, 58, 47, 47, 101, 99, 111, 105,
      110, 102, 111, 114, 109, 97, 116, 105, 99, 115, 46, 111, 114, 103, 47, 101, 109,
      108, 45, 50, 46, 49, 46, 49, 32, 101, 109, 108, 46, 120, 115, 100, 34, 62>>

\* "<dataset>"
EmlDataset == <<60, 100, 97, 116, 97, 115, 101, 116, 62>>

\* "<individualName><surName>Test user</surName></individualName>"
EmlIndividualName ==
    <<60, 105, 110, 100, 105, 118, 105, 100, 117, 97, 108, 78, 97, 109, 101, 62, 60, 115,
      117, 114, 78, 97, 109, 101, 62, 84, 101, 115, 116, 32, 117, 115, 101, 114, 60, 47,
      115, 117, 114, 78, 97, 109, 101, 62, 60, 47, 105, 110, 100, 105, 118, 105, 100, 117,
      97, 108, 78, 97, 109, 101, 62>>

\* f"<creator>{individualName}</creator>"
EmlCreator ==
    <<60, 99, 114, 101, 97, 116, 111, 114, 62>> \o EmlIndividualName
        \o <<60, 47, 99, 114, 101, 97, 116, 111, 114, 62>>

\* f"<contact>{individualName}</contact>"
EmlContact ==
    <<60, 99, 111, 110, 116, 97, 99, 116, 62>> \o EmlIndividualName
        \o <<60, 47, 99, 111, 110, 116, 97, 99, 116, 62>>

\* "</dataset>"
EmlDatasetClose == <<60, 47, 100, 97, 116, 97, 115, 101, 116, 62>>

\* "</eml:eml>"
EmlClose == <<60, 47, 101, 109, 108, 58, 101, 109, 108, 62>>

\* f"<title>{title}</title>": the title goes in as it is.
TitleElement(t) ==
    <<60, 116, 105, 116, 108, 101, 62>> \o t \o <<60, 47, 116, 105, 116, 108, 101, 62>>

CreateMinimumEml(t) ==
    EmlTop \o EmlNamespace \o EmlDataset \o TitleElement(t) \o EmlCreator
        \o EmlContact \o EmlDatasetClose \o EmlClose

--------------------------------------------------------------------------
(***************************************************************************)
(* xml.dom.minidom.parseString, for the documents create_minimum_eml can   *)
(* return: the XML declaration, comments, start, end and empty-element     *)
(* tags with attributes, the five predefined entity references, character  *)
(* data and the normalisation of line ends.  The result is whether the     *)
(* document is well formed and, if so, the text content of each title      *)
(* element in document order.                                              *)
(***************************************************************************)
NotWellFormed == [ok |-> FALSE, titles |-> <<>>]

IsSpace(c) == c \in {32, 9, 10, 13}

\* A letter, "_", ":" or a character beyond ASCII.
IsNameStart(c) == c \in 65..90 \/ c \in 97..122 \/ c = 95 \/ c = 58 \/ c >= 192

\* Also a digit, "-" or ".".
IsNameChar(c) == IsNameStart(c) \/ c \in 48..57 \/ c = 45 \/ c = 46

\* The last position of the name that starts at j (j - 1 when there is none).
NameEnd(d, j) ==
    LET bad == {k \in j..Len(d) : ~IsNameChar(d[k])}
    IN  IF bad = {} THEN Len(d) ELSE Min(bad) - 1

\* The first position >= j that holds no white space (Len(d) + 1 at the end).
SkipSpaces(d, j) ==
    LET ink == {k \in j..Len(d) : ~IsSpace(d[k])}
    IN  IF ink = {} THEN Len(d) + 1 ELSE Min(ink)

\* The character an entity reference &name; stands for, or 0.
EntityChar(name) ==
    CASE name = <<97, 109, 112>>       -> 38    \* amp
      [] name = <<108, 116>>           -> 60    \* lt
      [] name = <<103, 116>>           -> 62    \* gt
      [] name = <<113, 117, 111, 116>> -> 34    \* quot
      [] name = <<97, 112, 111, 115>>  -> 39    \* apos
      [] OTHER                         -> 0

\* From position j inside a start tag, after its name: the position of the
\* ">" that ends the tag and whether the tag is an empty-element tag;
\* end = 0 when the attributes are malformed.
RECURSIVE AttrsEnd(_, _, _)
AttrsEnd(d, j, spaced) ==
    IF j > Len(d) THEN [end |-> 0, empty |-> FALSE]
    ELSE IF d[j] = 62 THEN [end |-> j, empty |-> FALSE]
    ELSE IF d[j] = 47
        THEN IF j + 1 <= Len(d) /\ d[j + 1] = 62
                THEN [end |-> j + 1, empty |-> TRUE]
                ELSE [end |-> 0, empty |-> FALSE]
    ELSE IF IsSpace(d[j]) THEN AttrsEnd(d, j + 1, TRUE)
    ELSE IF spaced /\ IsNameStart(d[j])
        THEN LET n  == NameEnd(d, j)
                 eq == SkipSpaces(d, n + 1)
                 q  == SkipSpaces(d, eq + 1)
                 close == IF q <= Len(d) THEN Find(d, q + 1, d[q]) ELSE 0
             IN  IF /\ eq <= Len(d) /\ d[eq] = 61
                    /\ q <= Len(d) /\ d[q] \in {34, 39}
                    /\ close # 0
                    /\ \A k \in (q + 1)..(close - 1) : d[k] \notin {60, 38}
                    THEN AttrsEnd(d, close + 1, FALSE)
                    ELSE [end |-> 0, empty |-> FALSE]
    ELSE [end |-> 0, empty |-> FALSE]

\* Character data t read inside the innermost open element.
AddText(stack, t) ==
    [stack EXCEPT ![Len(stack)].text = @ \o t]

\* The innermost open element ends: its text joins its parent's.
PopElement(stack) ==
    LET top  == stack[Len(stack)]
        rest == SubSeq(stack, 1, Len(stack) - 1)
    IN  IF rest = <<>> THEN rest ELSE AddText(rest, top.text)

TitleName == <<116, 105, 116, 108, 101>>

\* The titles collected so far, with the element el that just ended.
WithTitle(titles, el) ==
    IF el.name = TitleName THEN Append(titles, el.text) ELSE titles

RECURSIVE Parse(_, _, _, _, _)
Parse(d, i, stack, titles, roots) ==
    IF i > Len(d)
        THEN IF stack = <<>> /\ roots = 1
                THEN [ok |-> TRUE, titles |-> titles]
                ELSE NotWellFormed
    ELSE IF d[i] = 60 THEN
        IF StartsWithAt(d, i, <<60, 63>>)                     \* <? ... ?>
            THEN LET e == FindSeq(d, i + 2, <<63, 62>>)
                 IN  IF e = 0 THEN NotWellFormed
                     ELSE Parse(d, e + 2, stack, titles, roots)
        ELSE IF StartsWithAt(d, i, <<60, 33, 45, 45>>)        \* <!-- ... -->
            THEN LET e == FindSeq(d, i + 4, <<45, 45>>)
                 IN  IF e = 0 \/ ~StartsWithAt(d, e, <<45, 45, 62>>)
                        THEN NotWellFormed
                        ELSE Parse(d, e + 3, stack, titles, roots)
        ELSE IF StartsWithAt(d, i, <<60, 47>>)                \* </name>
            THEN LET n == NameEnd(d, i + 2)
                     g == SkipSpaces(d, n + 1)
                 IN  IF \/ n < i + 2
                        \/ ~IsNameStart(d[i + 2])
                        \/ g > Len(d)
                        \/ d[g] # 62
                        \/ stack = <<>>
                        \/ stack[Len(stack)].name # SubSeq(d, i + 2, n)
                        THEN NotWellFormed
                        ELSE Parse(d, g + 1, PopElement(stack),
                                   WithTitle(titles, stack[Len(stack)]), roots)
        ELSE                                                  \* <name ...>
            IF i + 1 > Len(d) \/ ~IsNameStart(d[i + 1]) THEN NotWellFormed
            ELSE LET n  == NameEnd(d, i + 1)
                     a  == AttrsEnd(d, n + 1, FALSE)
                     el == [name |-> SubSeq(d, i + 1, n), text |-> <<>>]
                 IN  IF a.end = 0 \/ (stack = <<>> /\ roots >= 1)
                        THEN NotWellFormed
                     ELSE IF a.empty
                        THEN Parse(d, a.end + 1, stack, WithTitle(titles, el),
                                   IF stack = <<>> THEN roots + 1 ELSE roots)
                        ELSE Parse(d, a.end + 1, Append(stack, el), titles,
                                   IF stack = <<>> THEN roots + 1 ELSE roots)
    ELSE IF stack = <<>>
        THEN IF IsSpace(d[i]) THEN Parse(d, i + 1, stack, titles, roots)
             ELSE NotWellFormed
    ELSE IF d[i] = 38 THEN                                    \* &name;
        LET semi == Find(d, i + 1, 59)
            ch   == IF semi = 0 THEN 0 ELSE EntityChar(SubSeq(d, i + 1, semi - 1))
        IN  IF ch = 0 THEN NotWellFormed
            ELSE Parse(d, semi + 1, AddText(stack, <<ch>>), titles, roots)
    ELSE IF d[i] = 13 THEN                                    \* CR, CR LF -> LF
        Parse(d, IF i + 1 <= Len(d) /\ d[i + 1] = 10 THEN i + 2 ELSE i + 1,
              AddText(stack, <<10>>), titles, roots)
    ELSE LET stops == {k \in i..Len(d) : d[k] \in {60, 38, 13}}     \* a run of text
             j     == IF stops = {} THEN Len(d) + 1 ELSE Min(stops)
         IN  Parse(d, j, AddText(stack, SubSeq(d, i, j - 1)), titles, roots)

ParseString(x) == Parse(x, 1, <<>>, <<>>, 0)

--------------------------------------------------------------------------
(***************************************************************************)
(* Python values and exceptions.                                           *)
(***************************************************************************)
\* A bytes object, a str, and a value that is neither (an int, say).
Bytes(b) == [type |-> "bytes", val |-> b]
Str(s) == [type |-> "str", val |-> s]
OtherObject == [type |-> "int", val |-> <<>>]
PyNone == [type |-> "NoneType", val |-> <<>>]

\* A call that returned v, a call that raised e, and no call yet.
Return(v) == [raised |-> None, value |-> v]
Raise(e) == [raised |-> e, value |-> None]
NotCalled == [raised |-> "not called", value |-> None]

\* ValueError and its subclasses (UnicodeEncodeError is a UnicodeError, which
\* is a ValueError), and TypeError.
ValueErrorClass == {"ValueError", "UnicodeEncodeError", "TypeError"}

\* str.encode("utf-8") of one code point.
Utf8Char(c) ==
    IF c < 128 THEN <<c>>
    ELSE IF c < 2048 THEN <<192 + (c \div 64), 128 + (c % 64)>>
    ELSE IF c < 65536
        THEN <<224 + (c \div 4096), 128 + ((c \div 64) % 64), 128 + (c % 64)>>
    ELSE <<240 + (c \div 262144), 128 + ((c \div 4096) % 64),
           128 + ((c \div 64) % 64), 128 + (c % 64)>>

\* A lone surrogate has no UTF-8 encoding.
IsSurrogate(c) == c \in 55296..57343

Utf8Bytes(s) == Flatten([k \in DOMAIN s |-> Utf8Char(s[k])])

\* str.encode("utf-8")
EncodeUtf8(s) ==
    IF \E k \in DOMAIN s : IsSurrogate(s[k])
        THEN Raise("UnicodeEncodeError")
        ELSE Return(Bytes(Utf8Bytes(s)))

\* hashlib.md5(b).hexdigest(): the digest is kept as a term over the bytes
\* hashed, so two digests are equal exactly when the bytes are.
Md5Hexdigest(b) == [md5_of |-> b]

--------------------------------------------------------------------------
(***************************************************************************)
(* generate_system_metadata and generate_public_access_policy.             *)
(***************************************************************************)
\* The fileName of a record that has none.
NoFileName == PyNone

\* d1_common.const.SUBJECT_PUBLIC
SUBJECT_PUBLIC == "public"

GeneratePublicAccessPolicy ==
    <<[subject |-> <<SUBJECT_PUBLIC>>, permission |-> <<"read">>]>>

\* The first lines of generate_system_metadata: science_object as bytes.
\* The coercion without its else branch: an object that is neither bytes nor
\* str passes as empty bytes.
CoerceNoRaise(science_object) ==
    IF science_object.type = "str"
        THEN EncodeUtf8(science_object.val)
        ELSE Return(Bytes(science_object.val))

\* The coercion without the encoding: a str is taken as it is.
CoerceNoEncode(science_object) ==
    IF science_object.type \in {"bytes", "str"}
        THEN Return(Bytes(science_object.val))
        ELSE Raise("ValueError")

Coerce(science_object) ==
    IF science_object.type # "bytes"
        THEN IF science_object.type = "str"
                THEN EncodeUtf8(science_object.val)
                ELSE Raise("ValueError")
        ELSE Return(science_object)

\* A test that takes no filename as given.
TruthyNever(filename) == FALSE

\* if filename: Python's truth value of the argument, None and "" are false.
Truthy(filename) == filename.type # "NoneType" /\ filename.val # <<>>

\* generate_system_metadata, were it to name an object without a filename
\* after the time of the call.
GenerateSystemMetadataStamped(pid, format_id, science_object, orcid, filename, t) ==
    LET b == Coerce(science_object)
    IN  IF b.raised # None THEN Raise(b.raised)
        ELSE Return([identifier |-> pid,
                     formatId |-> format_id,
                     size |-> Len(b.value.val),
                     rightsHolder |-> orcid,
                     fileName |-> IF Truthy(filename) THEN filename ELSE Str(<<t>>),
                     checksum |-> [value |-> Md5Hexdigest(b.value.val),
                                   algorithm |-> "MD5"],
                     dateUploaded |-> t,
                     dateSysMetadataModified |-> t,
                     accessPolicy |-> GeneratePublicAccessPolicy])

\* t is what datetime.datetime.now() returns during the call.
GenerateSystemMetadata(pid, format_id, science_object, orcid, filename, t) ==
    LET b == Coerce(science_object)
    IN  IF b.raised # None THEN Raise(b.raised)
        ELSE Return([identifier |-> pid,
                     formatId |-> format_id,
                     size |-> Len(b.value.val),
                     rightsHolder |-> orcid,
                     fileName |-> IF Truthy(filename) THEN filename ELSE NoFileName,
                     checksum |-> [value |-> Md5Hexdigest(b.value.val),
                                   algorithm |-> "MD5"],
                     dateUploaded |-> t,
                     dateSysMetadataModified |-> t,
                     accessPolicy |-> GeneratePublicAccessPolicy])

--------------------------------------------------------------------------
(***************************************************************************)
(* Paths: a pathlib.Path is the sequence of its parts.                     *)
(***************************************************************************)
\* Python's < on str (and on the list of a path's parts): the first
\* difference decides, and a proper prefix is smaller.
RECURSIVE StrLess(_, _)
StrLess(a, b) ==
    IF b = <<>> THEN FALSE
    ELSE IF a = <<>> THEN TRUE
    ELSE IF Head(a) # Head(b) THEN Head(a) < Head(b)
    ELSE StrLess(Tail(a), Tail(b))

RECURSIVE PathLess(_, _)
PathLess(p, q) ==
    IF q = <<>> THEN FALSE
    ELSE IF p = <<>> THEN TRUE
    ELSE IF Head(p) # Head(q) THEN StrLess(Head(p), Head(q))
    ELSE PathLess(Tail(p), Tail(q))

\* sorted(): the elements in ascending order, equal ones in their old order.
RECURSIVE Insert(_, _)
Insert(s, p) ==
    IF s = <<>> THEN <<p>>
    ELSE IF PathLess(p, Head(s)) THEN <<p>> \o s
    ELSE <<Head(s)>> \o Insert(Tail(s), p)

RECURSIVE SortedList(_)
SortedList(s) ==
    IF s = <<>> THEN <<>>
    ELSE Insert(SortedList(SubSeq(s, 1, Len(s) - 1)), s[Len(s)])

\* The paths as rglob yields them.
Unsorted(s) == s

\* The paths of files: sorted(itertools.chain(...rglob("*"), ...rglob("*"))).
Sorted(s) == SortedList(s)

\* str(path): the parts joined by os.path.sep, "/".
PathStr(p) ==
    Flatten([k \in DOMAIN p |-> IF k = 1 THEN p[k] ELSE <<47>> \o p[k]])

\* str.replace(os.path.sep, "__")
ReplaceSep(s) ==
    Flatten([k \in DOMAIN s |-> IF s[k] = 47 THEN <<95, 95>> ELSE <<s[k]>>])

FlattenFilepath(path) == ReplaceSep(PathStr(path))

--------------------------------------------------------------------------
(***************************************************************************)
(* Cell 3: the test assets and the list files.                             *)
(***************************************************************************)
\* "tmp1", "tmp2"
DirectoryNames == {<<116, 109, 112, 49>>, <<116, 109, 112, 50>>}

\* "file1.txt", "file2.txt"
FileNames ==
    {<<102, 105, 108, 101, 49, 46, 116, 120, 116>>,
     <<102, 105, 108, 101, 50, 46, 116, 120, 116>>}

\* The files the cell writes.
WrittenPaths == {<<d, f>> : d \in DirectoryNames, f \in FileNames}

\* Files the directories may hold already (mkdir(exist_ok=True)):
\* "tmp1/file10.txt", "tmp2/a b.txt", "tmp2/file1.txt.bak".
OtherPaths ==
    {<<<<116, 109, 112, 49>>, <<102, 105, 108, 101, 49, 48, 46, 116, 120, 116>>>>,
     <<<<116, 109, 112, 50>>, <<97, 32, 98, 46, 116, 120, 116>>>>,
     <<<<116, 109, 112, 50>>,
       <<102, 105, 108, 101, 49, 46, 116, 120, 116, 46, 98, 97, 107>>>>}

\* f"This is {filename} in directory {directory_name}"
WrittenText(path) ==
    <<84, 104, 105, 115, 32, 105, 115, 32>> \o path[2]
        \o <<32, 105, 110, 32, 100, 105, 114, 101, 99, 116, 111, 114, 121, 32>>
        \o path[1]

\* fp.read() of a file opened "rb": what write_text wrote, or, for a file
\* that was there before, its bytes (here two bytes that are not UTF-8).
ReadBytes(path) ==
    IF path \in WrittenPaths THEN Utf8Bytes(WrittenText(path)) ELSE <<255, 254>>

\* The sequences that list every element of S once.
Orderings(S) ==
    {s \in [1..Cardinality(S) -> S] : \A a, b \in DOMAIN s : s[a] = s[b] => a = b}

\* The orders in which itertools.chain(Path("tmp1").rglob("*"),
\* Path("tmp2").rglob("*")) can yield the paths on disk: all of tmp1 in the
\* directory's own order, then all of tmp2.
RglobOrders(disk) ==
    LET in1 == {p \in disk : p[1] = <<116, 109, 112, 49>>}
        in2 == disk \ in1
    IN  {a \o b : a \in Orderings(in1), b \in Orderings(in2)}

\* What the disk can hold when the cell has written its files.
Disks ==
    {WrittenPaths \cup X : X \in {Y \in SUBSET OtherPaths : Cardinality(Y) <= MaxExtraFiles}}

\* [{"path": path, "format": "text/plain"} for path in ...]
FilesOf(paths) == [k \in DOMAIN paths |-> [path |-> paths[k], format |-> "text/plain"]]

--------------------------------------------------------------------------
(***************************************************************************)
(* uuid.uuid4().                                                           *)
(***************************************************************************)
\* How many identifiers a run draws at most: the title's, the descriptor's,
\* one for each file and the resource map's.
NumIds == Cardinality(WrittenPaths) + MaxExtraFiles + 3

IdPool == 1..NumIds

\* The values the calls of uuid.uuid4() return, in order, come from the
\* system's random source; no value comes twice.  The streams tried: 1..NumIds
\* and NumIds..1, each started at every position.
UuidStreams ==
    {[k \in 1..NumIds |-> ((k - 1 + r) % NumIds) + 1] : r \in 0..(NumIds - 1)}
        \cup {[k \in 1..NumIds |-> NumIds - ((k - 1 + r) % NumIds)] : r \in 0..(NumIds - 1)}

\* A generator that returns its first value again.
Uuid4Again(stream, n) == stream[1]

\* uuid.uuid4(), when n values have been drawn from the stream before.
Uuid4(stream, n) == stream[n + 1]

\* The lowercase hexadecimal digit of d in 0..15.
HexDigit(d) == IF d < 10 THEN 48 + d ELSE 87 + d

\* The n lowest hexadecimal digits of u, the highest first.
RECURSIVE Hex(_, _)
Hex(u, n) ==
    IF n = 0 THEN <<>> ELSE Hex(u \div 16, n - 1) \o <<HexDigit(u % 16)>>

\* f"Test data package {uuid.uuid4().hex[:8]}", u the uuid's leading digits.
DefaultTitle(u) ==
    <<84, 101, 115, 116, 32, 100, 97, 116, 97, 32, 112, 97, 99, 107, 97, 103, 101, 32>>
        \o Hex(u, 8)

--------------------------------------------------------------------------
(***************************************************************************)
(* d1_common.resource_map.createSimpleResourceMap and its serialisation.   *)
(* A resource map is the list of its statements <<subject, predicate,      *)
(* object>>, as the notebook prints them for the package it uploaded; it   *)
(* serialises to three bytes a statement.  Object pid is resource pid, the *)
(* aggregation of the map with identifier m is resource 100 + m.           *)
(***************************************************************************)
Aggregation(m) == 100 + m

\* The predicates, as bytes of the serialised form.
Predicates ==
    [aggregates |-> 1, isAggregatedBy |-> 2, describes |-> 3, documents |-> 4,
     isDocumentedBy |-> 5, identifier |-> 6, type |-> 7]

CreateSimpleResourceMap(ore_p, scimeta_pid, sciobj_pid_list) ==
    LET agg == Aggregation(ore_p)
        P   == Predicates
    IN  <<<<ore_p, P.type, 0>>, <<ore_p, P.identifier, ore_p>>,
          <<ore_p, P.describes, agg>>,
          <<agg, P.aggregates, scimeta_pid>>,
          <<scimeta_pid, P.isAggregatedBy, agg>>,
          <<scimeta_pid, P.identifier, scimeta_pid>>>>
        \o [k \in DOMAIN sciobj_pid_list |-> <<agg, P.aggregates, sciobj_pid_list[k]>>]
        \o [k \in DOMAIN sciobj_pid_list |-> <<scimeta_pid, P.documents, sciobj_pid_list[k]>>]
        \o [k \in DOMAIN sciobj_pid_list |-> <<sciobj_pid_list[k], P.isAggregatedBy, agg>>]
        \o [k \in DOMAIN sciobj_pid_list |->
                <<sciobj_pid_list[k], P.identifier, sciobj_pid_list[k]>>]
        \o [k \in DOMAIN sciobj_pid_list |->
                <<sciobj_pid_list[k], P.isDocumentedBy, scimeta_pid>>]

\* A serialiser that would write the statements in another order once the
\* record of the resource map is made.
SerializeUnstable(graph) ==
    IF pc = "AggregationBuilt"
        THEN Flatten([k \in DOMAIN graph |-> graph[Len(graph) + 1 - k]])
        ELSE Flatten(graph)

\* ore.serialize(format="xml"): the statements of the graph in the order
\* the graph holds them, the same for every call on an unchanged graph.
Serialize(graph) == Flatten(graph)

\* The statements of a serialised resource map.
Statements(b) == [k \in 1..(Len(b) \div 3) |-> SubSeq(b, 3 * k - 2, 3 * k)]

\* The objects a serialised resource map aggregates, in the order it names
\* them.
ObjectsOf(stmts, predicate) ==
    Flatten([k \in DOMAIN stmts |->
                IF stmts[k][2] = predicate THEN <<stmts[k][3]>> ELSE <<>>])

Aggregated(b) == ObjectsOf(Statements(b), Predicates.aggregates)

\* Every identifier a serialised resource map names.
ObjectsNamed(b) ==
    {x \in UNION {{st[1], st[3]} : st \in Range(Statements(b))} : x \in IdPool}

--------------------------------------------------------------------------
(***************************************************************************)
(* The run of the notebook's code cells, top to bottom.  An exception that *)
(* no cell catches ends the run; client.create returns or raises before    *)
(* the statement after it runs.                                            *)
(***************************************************************************)
\* Cell 4.
orcid == "http://orcid.org/0000-0002-1756-2128"

EmlFormat == "eml://ecoinformatics.org/eml-2.1.1"
OreFormat == "http://www.openarchives.org/ore/terms"

\* What a create call can raise: the transport fails, the node refuses the
\* token, the node holds the identifier already.
TransportErrors == {"ConnectionError", "NotAuthorized"}

\* The calls that have neither returned nor raised.
Pending == {k \in DOMAIN calls : calls[k].outcome = "pending"}

\* A client whose create would not block.
ReturnedAlways == TRUE

\* client.create blocks: the next statement runs when it has returned.
Returned == Pending = {}

\* A run that would go on after an exception.
RunningAlways == TRUE

\* No statement runs after an exception left its cell.
Running == error = None

\* No cell catches an exception: the caller sees the one that was raised.
Propagate(e) == e

\* client.create(pid, payload, sysmeta), issued by the statement at line site
\* (path: the file of the loop's iteration, for a data object).
Issue(site, pid, payload, sysmeta, path) ==
    Append(calls, [site |-> site, pid |-> pid, payload |-> payload,
                   sysmeta |-> sysmeta, path |-> path, outcome |-> "pending"])

\* An append that keeps the first identifier only.
AppendPidOnce(pids, pid) == IF pids = <<>> THEN <<pid>> ELSE pids

\* data_pids.append(data_pid)
AppendPid(pids, pid) == Append(pids, pid)

\* data_pids as the loop's iteration finds it: [] before the first one.
LoopPids == IF pc = "DescriptorUploaded" THEN <<>> ELSE data_pids

Init ==
    /\ pc = "Start"
    /\ listing \in UNION {RglobOrders(d) : d \in Disks}
    /\ files = <<>>
    /\ title = <<>>
    /\ eml = <<>>
    /\ parsed = NotCalled
    /\ entropy \in UuidStreams
    /\ generated = 0
    /\ now = 0
    /\ idx = 0
    /\ eml_pid = 0
    /\ meta_sm = None
    /\ data_pids = <<>>
    /\ data_sm = None
    /\ ore_pid = 0
    /\ ore = <<>>
    /\ ore_meta = None
    /\ calls = <<>>
    /\ remote = {}
    /\ error = None
    /\ args = None
    /\ rec1 = NotCalled
    /\ rec2 = NotCalled

\* Cell 3: write the files, list and sort them.
CreateTestAssets ==
    /\ pc = "Start"
    /\ files' = FilesOf(Sorted(listing))
    /\ listing' = <<>>
    /\ pc' = "AssetsCreated"
    /\ UNCHANGED <<title, eml, parsed, entropy, generated, now, idx, eml_pid, meta_sm,
                   data_pids, data_sm, ore_pid, ore, ore_meta, calls, remote,
                   error, args, rec1, rec2>>

\* Cell 4: the client and the title.
Configure ==
    /\ pc = "AssetsCreated"
    /\ LET u == Uuid4(entropy, generated) IN
        /\ generated' = generated + 1
        /\ title' = DefaultTitle(u)
    /\ pc' = "Init"
    /\ UNCHANGED <<eml, parsed, entropy, now, listing, files, idx, eml_pid, meta_sm,
                   data_pids, data_sm, ore_pid, ore, ore_meta, calls, remote,
                   error, args, rec1, rec2>>

\* Cell 5 up to the create call: eml_pid, eml, eml_bytes, meta_sm.
BuildDescriptor ==
    /\ pc = "Init"
    /\ Running
    /\ LET u == Uuid4(entropy, generated) IN
        LET doc       == CreateMinimumEml(title)
            eml_bytes == EncodeUtf8(doc)
            sm        == GenerateSystemMetadata(u, EmlFormat, eml_bytes.value,
                                                orcid, PyNone, now)
        IN  /\ generated' = generated + 1
            /\ eml_pid' = u
            /\ eml' = doc
            /\ IF eml_bytes.raised # None
                THEN /\ error' = Propagate(eml_bytes.raised)
                     /\ UNCHANGED <<meta_sm, now, pc>>
               ELSE IF sm.raised # None
                THEN /\ error' = Propagate(sm.raised)
                     /\ UNCHANGED <<meta_sm, now, pc>>
               ELSE /\ meta_sm' = sm.value
                    /\ now' = now + 1
                    /\ pc' = "DescriptorBuilt"
                    /\ UNCHANGED error
    /\ UNCHANGED <<title, parsed, entropy, listing, files, idx, data_pids, data_sm,
                   ore_pid, ore, ore_meta, calls, remote, args, rec1, rec2>>

\* Cell 5: client.create(eml_pid, eml_bytes, meta_sm) is called.
CreateDescriptor ==
    /\ pc = "DescriptorBuilt"
    /\ Running
    /\ Returned
    /\ calls' = Issue(279, eml_pid, EncodeUtf8(eml).value, meta_sm, <<>>)
    /\ UNCHANGED <<pc, title, eml, parsed, entropy, generated, now, listing, files, idx,
                   eml_pid, meta_sm, data_pids, data_sm, ore_pid, ore, ore_meta,
                   remote, error, args, rec1, rec2>>

\* Cell 8: one iteration of the loop over files, up to its create call.
UploadData ==
    /\ pc \in {"DescriptorUploaded", "DataUploading"}
    /\ idx < Len(files)
    /\ Running
    /\ Returned
    /\ LET u == Uuid4(entropy, generated) IN
        LET data       == files[idx + 1]
            data_bytes == Bytes(ReadBytes(data.path))
            sm         == GenerateSystemMetadata(u, data.format, data_bytes, orcid,
                                                 Str(FlattenFilepath(data.path)), now)
        IN  /\ generated' = generated + 1
            /\ data_pids' = AppendPid(LoopPids, u)
            /\ IF sm.raised # None
                THEN /\ error' = Propagate(sm.raised)
                     /\ UNCHANGED <<data_sm, now, calls>>
                ELSE /\ data_sm' = sm.value
                     /\ now' = now + 1
                     /\ calls' = Issue(400, u, data_bytes, sm.value, data.path)
                     /\ UNCHANGED error
    /\ idx' = idx + 1
    /\ pc' = "DataUploading"
    /\ UNCHANGED <<title, eml, parsed, entropy, listing, files, eml_pid, meta_sm, ore_pid,
                   ore, ore_meta, remote, args, rec1, rec2>>

\* Cell 10 up to the create call: ore_pid, ore, ore_meta.
BuildAggregation ==
    /\ pc \in {"DescriptorUploaded", "DataUploading"}
    /\ idx = Len(files)
    /\ Running
    /\ Returned
    /\ LET u == Uuid4(entropy, generated) IN
        LET graph == CreateSimpleResourceMap(u, eml_pid, LoopPids)
            sm    == GenerateSystemMetadata(u, OreFormat, Bytes(Serialize(graph)),
                                            orcid, PyNone, now)
        IN  /\ generated' = generated + 1
            /\ ore_pid' = u
            /\ ore' = graph
            /\ IF sm.raised # None
                THEN /\ error' = Propagate(sm.raised)
                     /\ UNCHANGED <<ore_meta, now, pc>>
                ELSE /\ ore_meta' = sm.value
                     /\ now' = now + 1
                     /\ pc' = "AggregationBuilt"
                     /\ UNCHANGED error
    /\ data_pids' = LoopPids
    /\ UNCHANGED <<title, eml, parsed, entropy, listing, files, idx, eml_pid, meta_sm,
                   data_sm, calls, remote, args, rec1, rec2>>

\* Cell 10: client.create(ore_pid, ore.serialize(format="xml"), ore_meta) is
\* called.
CreateAggregation ==
    /\ pc = "AggregationBuilt"
    /\ Running
    /\ Returned
    /\ calls' = Issue(484, ore_pid, Bytes(Serialize(ore)), ore_meta, <<>>)
    /\ UNCHANGED <<pc, title, eml, parsed, entropy, generated, now, listing, files, idx,
                   eml_pid, meta_sm, data_pids, data_sm, ore_pid, ore, ore_meta,
                   remote, error, args, rec1, rec2>>

\* Where the run stands when the create call of a statement has returned.
AfterCreate(site) ==
    CASE site = 279 -> "DescriptorUploaded"
      [] site = 400 -> "DataUploading"
      [] site = 484 -> "AggregationUploaded"
      [] OTHER      -> "Uploaded"

\* The member node stores the object and the call returns.
CreateSucceeds ==
    /\ \E k \in Pending :
        /\ \A o \in remote : o.pid # calls[k].pid
        /\ calls' = [calls EXCEPT ![k].outcome = "ok"]
        /\ remote' = remote \cup {[pid |-> calls[k].pid,
                                   payload |-> calls[k].payload,
                                   sysmeta |-> calls[k].sysmeta]}
        /\ pc' = AfterCreate(calls[k].site)
    /\ UNCHANGED <<title, eml, parsed, entropy, generated, now, listing, files, idx,
                   eml_pid, meta_sm, data_pids, data_sm, ore_pid, ore, ore_meta,
                   error, args, rec1, rec2>>

\* The call raises: nothing is stored.
CreateFails ==
    /\ \E k \in Pending, e \in TransportErrors :
        /\ calls' = [calls EXCEPT ![k].outcome = e]
        /\ error' = Propagate(e)
    /\ UNCHANGED <<pc, title, eml, parsed, entropy, generated, now, listing, files, idx,
                   eml_pid, meta_sm, data_pids, data_sm, ore_pid, ore, ore_meta,
                   remote, args, rec1, rec2>>

\* The cells after the last create call only print.
Finish ==
    /\ pc = "AggregationUploaded"
    /\ Running
    /\ pc' = "Done"
    /\ UNCHANGED <<title, eml, parsed, entropy, generated, now, listing, files, idx,
                   eml_pid, meta_sm, data_pids, data_sm, ore_pid, ore, ore_meta,
                   calls, remote, error, args, rec1, rec2>>

Next ==
    \/ CreateTestAssets
    \/ Configure
    \/ BuildDescriptor
    \/ CreateDescriptor
    \/ UploadData
    \/ BuildAggregation
    \/ CreateAggregation
    \/ CreateSucceeds
    \/ CreateFails
    \/ Finish

Spec == Init /\ [][Next]_vars

--------------------------------------------------------------------------
(***************************************************************************)
(* The upload step on its own, as each of the three uploading cells runs   *)
(* it: sm = generate_system_metadata(pid, format_id, payload, orcid,       *)
(* filename), then client.create(pid, payload, sm), for arguments a caller *)
(* may pass.  The caller may call generate_system_metadata a second time   *)
(* with the arguments of the step, and the clock may advance between the   *)
(* two calls.  SpecStep is one step; in SpecSteps the caller runs up to    *)
(* MaxSteps steps, one after the other.                                    *)
(***************************************************************************)
\* The payloads tried: bytes, text (ASCII, two- and three-byte characters
\* and a lone surrogate) and an object that is neither.
Payloads ==
    {Bytes(b) : b \in SeqsUpTo({97, 255}, MaxPayloadLen)}
        \cup {Str(t) : t \in SeqsUpTo({97, 233, 8364, 55296}, MaxPayloadLen)}
        \cup {OtherObject}

\* The filenames tried: none, "" and "a__b".
Filenames == {PyNone, Str(<<>>), Str(<<97, 95, 95, 98>>)}

ArgSpace ==
    [pid : 1..MaxSteps, format_id : {"text/plain"}, science_object : Payloads,
     orcid : {orcid}, filename : Filenames]

InitStep ==
    /\ pc = "Idle"
    /\ idx = 0
    /\ now = 0
    /\ calls = <<>>
    /\ remote = {}
    /\ error = None
    /\ args = None
    /\ rec1 = NotCalled
    /\ rec2 = NotCalled
    /\ title = <<>>
    /\ eml = <<>>
    /\ parsed = NotCalled
    /\ entropy = <<>>
    /\ generated = 0
    /\ listing = <<>>
    /\ files = <<>>
    /\ eml_pid = 0
    /\ meta_sm = None
    /\ data_pids = <<>>
    /\ data_sm = None
    /\ ore_pid = 0
    /\ ore = <<>>
    /\ ore_meta = None

\* The caller starts its first step with arguments of its choice.
ChooseArgs ==
    /\ pc = "Idle"
    /\ idx' = idx + 1
    /\ args' \in ArgSpace
    /\ rec1' = NotCalled
    /\ rec2' = NotCalled
    /\ pc' = "Chosen"
    /\ UNCHANGED <<title, eml, parsed, entropy, generated, now, listing, files,
                   eml_pid, meta_sm, data_pids, data_sm, ore_pid, ore, ore_meta,
                   calls, remote, error>>

\* sm = generate_system_metadata(...)
Synthesize ==
    /\ pc = "Chosen"
    /\ Running
    /\ LET r == GenerateSystemMetadata(args.pid, args.format_id, args.science_object,
                                       args.orcid, args.filename, now)
       IN  /\ rec1' = r
           /\ error' = IF r.raised # None THEN Propagate(r.raised) ELSE error
           /\ pc' = IF r.raised # None THEN "Raised" ELSE "Synthesized"
    /\ UNCHANGED <<title, eml, parsed, entropy, generated, now, listing, files,
                   idx, eml_pid, meta_sm, data_pids, data_sm, ore_pid, ore,
                   ore_meta, calls, remote, args, rec2>>

\* Time passes.
Tick ==
    /\ pc = "Synthesized"
    /\ rec2 = NotCalled
    /\ now < MaxClock
    /\ now' = now + 1
    /\ UNCHANGED <<pc, title, eml, parsed, entropy, generated, listing, files, idx,
                   eml_pid, meta_sm, data_pids, data_sm, ore_pid, ore, ore_meta,
                   calls, remote, error, args, rec1, rec2>>

\* generate_system_metadata(...) once more, with the same arguments.
SynthesizeAgain ==
    /\ pc = "Synthesized"
    /\ rec2 = NotCalled
    /\ rec2' = GenerateSystemMetadata(args.pid, args.format_id, args.science_object,
                                      args.orcid, args.filename, now)
    /\ UNCHANGED <<pc, title, eml, parsed, entropy, generated, now, listing, files,
                   idx, eml_pid, meta_sm, data_pids, data_sm, ore_pid, ore,
                   ore_meta, calls, remote, error, args, rec1>>

\* client.create(pid, payload, sm) is called (site 0: no line of the
\* notebook; the call carries the number of its step).
StepCreate ==
    /\ pc = "Synthesized"
    /\ Running
    /\ Returned
    /\ calls' = Issue(0, args.pid, args.science_object, rec1.value, <<idx>>)
    /\ pc' = "Creating"
    /\ UNCHANGED <<title, eml, parsed, entropy, generated, now, listing, files,
                   idx, eml_pid, meta_sm, data_pids, data_sm, ore_pid, ore,
                   ore_meta, remote, error, args, rec1, rec2>>

\* The step has uploaded its object: the caller starts another one.
ChooseMoreArgs ==
    /\ pc = "Uploaded"
    /\ Running
    /\ idx < MaxSteps
    /\ idx' = idx + 1
    /\ args' \in ArgSpace
    /\ rec1' = NotCalled
    /\ rec2' = NotCalled
    /\ pc' = "Chosen"
    /\ UNCHANGED <<title, eml, parsed, entropy, generated, now, listing, files,
                   eml_pid, meta_sm, data_pids, data_sm, ore_pid, ore, ore_meta,
                   calls, remote, error>>

NextStep ==
    \/ ChooseArgs
    \/ Synthesize
    \/ Tick
    \/ SynthesizeAgain
    \/ StepCreate
    \/ CreateSucceeds
    \/ CreateFails

SpecStep == InitStep /\ [][NextStep]_vars

NextSteps ==
    \/ ChooseArgs
    \/ ChooseMoreArgs
    \/ Synthesize
    \/ Tick
    \/ SynthesizeAgain
    \/ StepCreate
    \/ CreateSucceeds
    \/ CreateFails

SpecSteps == InitStep /\ [][NextSteps]_vars

--------------------------------------------------------------------------
(***************************************************************************)
(* create_minimum_eml on its own, for titles a user may set in cell 4, and *)
(* pretty_format_xml on its result (cell 6).                               *)
(***************************************************************************)
\* The titles tried: text over "a", "<", ">", "&", "/" and a carriage return.
Titles == SeqsUpTo({97, 60, 62, 38, 47, 13}, MaxTitleLen)

InitEml ==
    /\ pc = "Init"
    /\ title \in Titles
    /\ eml = <<>>
    /\ parsed = NotCalled
    /\ idx = 0
    /\ now = 0
    /\ calls = <<>>
    /\ remote = {}
    /\ error = None
    /\ args = None
    /\ rec1 = NotCalled
    /\ rec2 = NotCalled
    /\ entropy = <<>>
    /\ generated = 0
    /\ listing = <<>>
    /\ files = <<>>
    /\ eml_pid = 0
    /\ meta_sm = None
    /\ data_pids = <<>>
    /\ data_sm = None
    /\ ore_pid = 0
    /\ ore = <<>>
    /\ ore_meta = None

\* eml = create_minimum_eml(title)
CreateEml ==
    /\ pc = "Init"
    /\ eml' = CreateMinimumEml(title)
    /\ pc' = "EmlCreated"
    /\ UNCHANGED <<title, parsed, entropy, generated, now, listing, files, idx,
                   eml_pid, meta_sm, data_pids, data_sm, ore_pid, ore, ore_meta,
                   calls, remote, error, args, rec1, rec2>>

\* pretty_format_xml(eml): xml.dom.minidom.parseString raises ExpatError on
\* a document that is not well formed.
PrettyFormatXml ==
    /\ pc = "EmlCreated"
    /\ LET dom == ParseString(eml)
       IN  /\ parsed' = IF dom.ok THEN Return(dom.titles) ELSE Raise("ExpatError")
           /\ error' = IF dom.ok THEN error ELSE Propagate("ExpatError")
    /\ pc' = "EmlParsed"
    /\ UNCHANGED <<title, eml, entropy, generated, now, listing, files, idx,
                   eml_pid, meta_sm, data_pids, data_sm, ore_pid, ore, ore_meta,
                   calls, remote, args, rec1, rec2>>

NextEml ==
    \/ CreateEml
    \/ PrettyFormatXml

SpecEml == InitEml /\ [][NextEml]_vars

--------------------------------------------------------------------------
(***************************************************************************)
(* Properties of the run (Spec).                                           *)
(***************************************************************************)
\* The identifiers of the objects the member node holds.
RemotePids == {o.pid : o \in remote}

\* The create calls the statement at line site has issued.
CallsAt(site) == {k \in DOMAIN calls : calls[k].site = site}

\* The create calls that raised.
Failed == {k \in DOMAIN calls : calls[k].outcome \in TransportErrors}

\* The object a create call uploads.
ObjectOf(call) == [pid |-> call.pid, payload |-> call.payload, sysmeta |-> call.sysmeta]

\* The resource maps the member node holds.
RemoteMaps == {o \in remote : o.sysmeta.formatId = OreFormat}

\* C1: the resource map is built, and its create call is issued, only when
\* the create call of the descriptor and the create call of every data
\* object have returned without an exception: whenever the resource map
\* exists or is being uploaded, every identifier it aggregates is the
\* identifier of an object the member node holds.
AggregationAfterReferences ==
    /\ ore # <<>> =>
        /\ \A x \in Range(Aggregated(Serialize(ore))) : x \in RemotePids
        /\ eml_pid \in RemotePids
        /\ \A k \in DOMAIN data_pids : data_pids[k] \in RemotePids
        /\ Len(data_pids) = Len(files)
        /\ \A k \in CallsAt(279) \cup CallsAt(400) : calls[k].outcome = "ok"
    /\ \A k \in CallsAt(484) :
        /\ ore # <<>>
        /\ \A x \in Range(Aggregated(calls[k].payload.val)) : x \in RemotePids

\* The create call of the resource map has been issued.
AggregationIssued == CallsAt(484) # {}

\* Where the run stands, counted from Init: the iteration of the loop over
\* files counts the data objects.
Rank ==
    CASE pc = "Start"               -> 0 - 2
      [] pc = "AssetsCreated"       -> 0 - 1
      [] pc = "Init"                -> 0
      [] pc = "DescriptorBuilt"     -> 1
      [] pc = "DescriptorUploaded"  -> 2
      [] pc = "DataUploading"       -> 2 + idx
      [] pc = "AggregationBuilt"    -> 3 + Len(files)
      [] pc = "AggregationUploaded" -> 4 + Len(files)
      [] pc = "Done"                -> 5 + Len(files)

\* At most one create call is in flight.
OneInFlight == Cardinality(Pending) <= 1

\* The descriptor's call is the first, the calls of the data objects follow
\* in the order of files, which ascends in the order of paths, and the
\* resource map's call comes when all of them have been made.
CallOrder ==
    /\ \A k \in DOMAIN calls :
        /\ calls[k].site = 279 <=> k = 1
        /\ calls[k].site = 400 <=> (2 <= k /\ k <= Len(files) + 1)
        /\ calls[k].site = 484 <=> k = Len(files) + 2
        /\ calls[k].site = 400 => calls[k].path = files[k - 1].path
        /\ k > 1 => calls[k - 1].outcome = "ok"
    /\ \A i, j \in DOMAIN files : i < j => PathLess(files[i].path, files[j].path)
    /\ pc = "DataUploading" => idx \in 1..Len(files)

\* C2: the create calls of a run come in one order and one at a time: the
\* descriptor, then the data files in ascending order of their paths, then
\* the resource map; and the run goes from Init through DescriptorBuilt,
\* DescriptorUploaded, DataUploading(1), ..., DataUploading(N),
\* AggregationBuilt and AggregationUploaded to Done, each step keeping its
\* state or moving to the next one.
FixedOrder ==
    /\ [](OneInFlight /\ CallOrder)
    /\ [][Rank' = Rank \/ Rank' = Rank + 1]_vars

\* The run is done and has uploaded a file the cell did not write, which the
\* sort placed among those it wrote.
SortedRunDone ==
    /\ pc = "Done"
    /\ Len(files) > Cardinality(WrittenPaths)
    /\ files[Len(files)].path \in WrittenPaths

\* The identifiers of the first n create calls, in the order of the calls.
Uploaded(n) == [k \in 1..n |-> calls[k].pid]

\* C3: a run over N files that reaches Done has issued N + 2 create calls,
\* one for the descriptor, N for the data objects and one for the resource
\* map, and the resource map the member node holds aggregates the
\* descriptor's identifier and the N data identifiers, each once and in the
\* order of their uploads, and names no other object.
PackageComplete ==
    pc = "Done" =>
        /\ Len(calls) = Len(files) + 2
        /\ Cardinality(CallsAt(279)) = 1
        /\ Cardinality(CallsAt(400)) = Len(files)
        /\ Cardinality(CallsAt(484)) = 1
        /\ Cardinality(RemoteMaps) = 1
        /\ \A o \in RemoteMaps :
            LET refs == Aggregated(o.payload.val)
            IN  /\ refs = Uploaded(Len(files) + 1)
                /\ \A i, j \in DOMAIN refs : refs[i] = refs[j] => i = j
                /\ ObjectsNamed(o.payload.val) = Range(refs) \cup {o.pid}

\* The run over the four files of the reference scenario is done.
ReferenceRunDone == pc = "Done" /\ Len(files) = Cardinality(WrittenPaths)

\* When a create call has raised: it is the last call of the run, the run
\* ended with the exception it raised, and the member node holds the objects
\* of the calls before it, and no resource map.
FailureStops ==
    Failed # {} =>
        /\ Failed = {Len(calls)}
        /\ error = calls[Len(calls)].outcome
        /\ \A k \in 1..(Len(calls) - 1) : calls[k].outcome = "ok"
        /\ remote = {ObjectOf(calls[k]) : k \in 1..(Len(calls) - 1)}
        /\ RemoteMaps = {}

\* C5: when a create call raises, the exception reaches the caller as it was
\* raised and the run stops there: the call is not made again, no later
\* create call is made, and the objects uploaded before stay as they are;
\* the member node holds the objects whose create call returned before the
\* failure, and no resource map.
FailureEndsRun ==
    /\ []FailureStops
    /\ [][Failed # {} => calls' = calls /\ remote' = remote /\ error' = error]_vars

\* A create call has raised after other objects were uploaded.
FailedAfterUploads == Failed # {} /\ Cardinality(remote) >= 2

\* C8: every object of a run gets the identifier uuid4 returns for it, the
\* identifiers passed to create are pairwise distinct, each is passed once,
\* and an object the member node holds is never changed or removed.
FreshIdentifiers ==
    /\ [](/\ \A k \in DOMAIN calls : calls[k].pid = entropy[k + 1]
          /\ \A j, k \in DOMAIN calls : calls[j].pid = calls[k].pid => j = k
          /\ \A o1, o2 \in remote : o1.pid = o2.pid => o1 = o2
          /\ pc = "Done" => Cardinality(RemotePids) = Len(files) + 2)
    /\ [][\A o \in remote : o \in remote']_vars

\* The member node holds the descriptor, every data object and the resource
\* map.
AllObjectsRemote == files # <<>> /\ Cardinality(remote) = Len(files) + 2

--------------------------------------------------------------------------
(***************************************************************************)
(* Properties of the upload step (SpecStep, SpecSteps).                    *)
(***************************************************************************)
\* generate_system_metadata has returned a record for the step's arguments.
Accepted == rec1.raised = None

\* The bytes of an accepted payload: the payload, or the UTF-8 encoding of
\* its text.
AsBytes(p) == IF p.type = "bytes" THEN p.val ELSE Utf8Bytes(p.val)

\* C4, as stated: for every payload P that generate_system_metadata accepts,
\* the record's size is len(P) and its checksum is the MD5 hex digest of P,
\* with algorithm "MD5".
SizeAndChecksumOfPayload ==
    Accepted =>
        /\ rec1.value.size = Len(args.science_object.val)
        /\ rec1.value.checksum = [value |-> Md5Hexdigest(args.science_object.val),
                                  algorithm |-> "MD5"]

\* C4, amended: for every payload P that generate_system_metadata accepts,
\* the record's size is the number of bytes of P, and its checksum the MD5
\* hex digest of the bytes of P, with algorithm "MD5", where the bytes of a
\* str are its UTF-8 encoding.
SizeAndChecksumOfBytes ==
    Accepted =>
        /\ rec1.value.size = Len(AsBytes(args.science_object))
        /\ rec1.value.checksum = [value |-> Md5Hexdigest(AsBytes(args.science_object)),
                                  algorithm |-> "MD5"]

\* A record was returned for a text that is shorter than its bytes.
TextLongerAsBytes ==
    /\ Accepted
    /\ args.science_object.type = "str"
    /\ rec1.value.size > Len(args.science_object.val)

\* A create call was issued with an identifier an earlier call of the run
\* used.
DuplicateIssued == \E j, k \in DOMAIN calls : j < k /\ calls[j].pid = calls[k].pid

\* C6: an upload step whose identifier was used for another object of the
\* run fails before a create call is issued for it: no create call carries
\* the identifier of an earlier one.
DuplicateRefused == ~DuplicateIssued

\* A payload that is bytes, or text that UTF-8 can encode.
ByteCoercible(p) ==
    \/ p.type = "bytes"
    \/ p.type = "str" /\ \A k \in DOMAIN p.val : ~IsSurrogate(p.val[k])

\* C7: generate_system_metadata, called with a payload that is not
\* byte-coercible, raises a ValueError or TypeError and returns no record,
\* and no create call is issued for the object of the step.
NotCoercibleRaises ==
    (pc \notin {"Idle", "Chosen"} /\ ~ByteCoercible(args.science_object)) =>
        /\ rec1.raised \in ValueErrorClass
        /\ rec1.value = None
        /\ error = rec1.raised
        /\ pc = "Raised"
        /\ \A k \in DOMAIN calls : calls[k].path # <<idx>>

\* generate_system_metadata was called with an object that is neither bytes
\* nor str.
OtherObjectTried == pc = "Raised" /\ args.science_object.type = "int"

\* A record without its two dates.
WithoutDates(r) == [r EXCEPT !.dateUploaded = 0, !.dateSysMetadataModified = 0]

\* C9: two calls of generate_system_metadata with the same identifier,
\* format id, payload, rights holder and filename return records that agree
\* in identifier, formatId, size, checksum, rightsHolder, accessPolicy and
\* fileName; they can differ in dateUploaded and dateSysMetadataModified.
SameButDates ==
    rec2.raised # "not called" =>
        /\ rec1.raised = None
        /\ rec2.raised = None
        /\ WithoutDates(rec1.value) = WithoutDates(rec2.value)

\* The two calls returned records of different dates, for a filename given.
CalledTwiceLater ==
    /\ rec1.raised = None
    /\ rec2.raised = None
    /\ rec1.value.dateUploaded # rec2.value.dateUploaded
    /\ Truthy(args.filename)

--------------------------------------------------------------------------
(***************************************************************************)
(* Properties of the descriptor (SpecEml).                                 *)
(***************************************************************************)
\* C10: for every title, parsing the document create_minimum_eml(title)
\* returns finds one title element, whose text is the title.
TitleRoundTrip ==
    pc = "EmlParsed" => parsed.raised = None /\ parsed.value = <<title>>

\* The document of a title was parsed and the title did not come back.
TitleLost ==
    /\ pc = "EmlParsed"
    /\ \/ parsed.raised # None
       \/ parsed.raised = None /\ parsed.value # <<title>>

--------------------------------------------------------------------------
(***************************************************************************)
(* Properties of the records and of data_pids.                             *)
(***************************************************************************)
\* The record of a create call has the size and the MD5 digest of the
\* payload of the call.
RecordMatches(call) ==
    /\ call.sysmeta.size = Len(AsBytes(call.payload))
    /\ call.sysmeta.checksum = [value |-> Md5Hexdigest(AsBytes(call.payload)),
                                algorithm |-> "MD5"]
    /\ call.sysmeta.identifier = call.pid

FilenameVerbatim ==
    Accepted =>
        /\ args.filename.type = "str" => rec1.value.fileName = args.filename
        /\ args.filename.type = "NoneType" => rec1.value.fileName = NoFileName

\* C12, amended: for every non-empty string passed as filename the
\* record's fileName is that string; without a filename, and with the empty
\* string as filename, the record has no fileName.
FilenameVerbatimUnlessEmpty ==
    Accepted =>
        /\ (args.filename.type = "str" /\ args.filename.val # <<>>)
                => rec1.value.fileName = args.filename
        /\ (args.filename.type = "NoneType" \/ args.filename.val = <<>>)
                => rec1.value.fileName = NoFileName

\* A record was returned for the empty string as filename.
EmptyFilenameDropped ==
    /\ Accepted
    /\ args.filename.type = "str"
    /\ args.filename.val = <<>>
    /\ rec1.value.fileName = NoFileName

\* The loop over files has stopped: a create call of it raised, or it has
\* taken every file and the last create call returned.
LoopStopped ==
    \/ pc = "DataUploading" /\ Failed # {}
    \/ pc = "DataUploading" /\ idx = Len(files) /\ Pending = {}
    \/ pc \in {"AggregationBuilt", "AggregationUploaded", "Done"}

\* The identifiers of the data objects whose create call returned, in the
\* order of the calls.
SucceededDataPids ==
    Flatten([k \in DOMAIN calls |->
                IF calls[k].site = 400 /\ calls[k].outcome = "ok"
                    THEN <<calls[k].pid>> ELSE <<>>])

\* C13: whenever the loop over files stops, data_pids holds the
\* identifiers of the data objects whose create call returned, in upload
\* order, and no other: a resource map built from it names objects of the
\* member node only.
DataPidsSucceeded ==
    LoopStopped =>
        /\ data_pids = SucceededDataPids
        /\ \A k \in DOMAIN data_pids : data_pids[k] \in RemotePids

\* The loop stopped on a create call that raised, and data_pids holds the
\* identifier of that call.
DanglingDataPid ==
    /\ pc = "DataUploading"
    /\ Failed # {}
    /\ data_pids # <<>>
    /\ data_pids[Len(data_pids)] = calls[Len(calls)].pid
    /\ data_pids[Len(data_pids)] \notin RemotePids

=============================================================================
